---- MODULE Spec2Model ----
(***************************************************************************)
(* Love Sandwiches data automation (src/run.py).                           *)
(*                                                                         *)
(* Strings are sequences of one-character strings, so that split(","),     *)
(* int(), and the formatting of a number in a sheet cell are computed and   *)
(* not assumed.  A worksheet is a sequence of rows, a row is a sequence of  *)
(* cells, a cell is a string.                                               *)
(***************************************************************************)
EXTENDS Integers, Sequences, FiniteSets, TLC

VARIABLES SHEET, orig, pc, run, err, prompts, data_str, validated, data,
          sales_data, stock_row, surplus_data, sales_columns, stock_data, ops

vars == <<SHEET, orig, pc, run, err, prompts, data_str, validated, data,
          sales_data, stock_row, surplus_data, sales_columns, stock_data, ops>>

(***************************************************************************)
(* Bounds of the model.                                                    *)
(***************************************************************************)
MaxRuns == 2
MaxPrompts == 2
MaxSeed == 4
MaxTokens == 7

(***************************************************************************)
(* Strings and integers: int(), str(), split(",").                         *)
(***************************************************************************)
Digits == <<"0", "1", "2", "3", "4", "5", "6", "7", "8", "9">>

IsDigit(c) == \E d \in 1..10 : Digits[d] = c

DigitVal(c) == (CHOOSE d \in 1..10 : Digits[d] = c) - 1

RECURSIVE LStrip(_)
LStrip(s) == IF s # <<>> /\ Head(s) = " " THEN LStrip(Tail(s)) ELSE s

RECURSIVE RStrip(_)
RStrip(s) ==
    IF s # <<>> /\ s[Len(s)] = " " THEN RStrip(SubSeq(s, 1, Len(s) - 1)) ELSE s

Strip(s) == RStrip(LStrip(s))

\* the digits of an integer literal: no leading, trailing or doubled "_"
WellFormedDigits(b) ==
    /\ b # <<>>
    /\ IsDigit(b[1])
    /\ IsDigit(b[Len(b)])
    /\ \A i \in 1..Len(b) : IsDigit(b[i]) \/ b[i] = "_"
    /\ \A i \in 1..(Len(b) - 1) : ~(b[i] = "_" /\ b[i + 1] = "_")

RECURSIVE DigitsValue(_, _)
DigitsValue(b, acc) ==
    IF b = <<>> THEN acc
    ELSE IF Head(b) = "_" THEN DigitsValue(Tail(b), acc)
    ELSE DigitsValue(Tail(b), 10 * acc + DigitVal(Head(b)))

\* int(value) of a str: [ok |-> TRUE, val |-> n], or ok = FALSE for ValueError
PyInt(s) ==
    LET t == Strip(s)
        signed == t # <<>> /\ t[1] \in {"+", "-"}
        b == IF signed THEN Tail(t) ELSE t
    IN  IF WellFormedDigits(b)
        THEN [ok |-> TRUE,
              val |-> IF signed /\ t[1] = "-" THEN 0 - DigitsValue(b, 0)
                      ELSE DigitsValue(b, 0)]
        ELSE [ok |-> FALSE, val |-> 0]

RECURSIVE NatStr(_)
NatStr(n) == IF n < 10 THEN <<Digits[n + 1]>>
             ELSE NatStr(n \div 10) \o <<Digits[(n % 10) + 1]>>

\* the text of a cell that holds the integer n
Str(n) == IF n < 0 THEN <<"-">> \o NatStr(0 - n) ELSE NatStr(n)

RECURSIVE split(_)
split(s) ==
    IF \A i \in 1..Len(s) : s[i] # ","
    THEN <<s>>
    ELSE LET i == CHOOSE j \in 1..Len(s) :
                      s[j] = "," /\ \A k \in 1..(j - 1) : s[k] # ","
         IN  <<SubSeq(s, 1, i - 1)>> \o split(SubSeq(s, i + 1, Len(s)))

RECURSIVE Join(_)
Join(ts) == IF ts = <<>> THEN <<>>
            ELSE IF Len(ts) = 1 THEN ts[1]
            ELSE ts[1] \o <<",">> \o Join(Tail(ts))

(***************************************************************************)
(* validate_data                                                           *)
(***************************************************************************)
\* variant: the tokens are counted and never converted
TryBody_CountOnly(values) ==
    IF Len(values) # 6
    THEN [exc |-> "ValueError", msg |-> "count"]
    ELSE [exc |-> "none", msg |-> "none"]

\* variant: fewer than 6 tokens are refused, more than 6 are not
TryBody_AtLeast6(values) ==
    IF \E i \in 1..Len(values) : ~PyInt(values[i]).ok
    THEN [exc |-> "ValueError", msg |-> "invalid literal"]
    ELSE IF Len(values) < 6
    THEN [exc |-> "ValueError", msg |-> "count"]
    ELSE [exc |-> "none", msg |-> "none"]

\* what the body of the try statement raises: the list comprehension stops
\* at the first token int() refuses, the count is compared afterwards
TryBody(values) ==
    IF \E i \in 1..Len(values) : ~PyInt(values[i]).ok
    THEN [exc |-> "ValueError", msg |-> "invalid literal"]
    ELSE IF Len(values) # 6
    THEN [exc |-> "ValueError", msg |-> "count"]
    ELSE [exc |-> "none", msg |-> "none"]

\* ret: the value returned; raised: the exception that leaves the function
validate_data(values) ==
    LET t == TryBody(values)
    IN  IF t.exc = "ValueError"
        THEN [ret |-> FALSE, raised |-> "none", msg |-> t.msg]
        ELSE IF t.exc = "none"
        THEN [ret |-> TRUE, raised |-> "none", msg |-> "none"]
        ELSE [ret |-> FALSE, raised |-> t.exc, msg |-> t.msg]

(***************************************************************************)
(* Rows and columns                                                        *)
(***************************************************************************)
Min(a, b) == IF a < b THEN a ELSE b

Max(a, b) == IF a < b THEN b ELSE a

\* [int(num) for num in row]
AllInt(row) == \A i \in 1..Len(row) : PyInt(row[i]).ok

IntRow(row) == [i \in 1..Len(row) |-> PyInt(row[i]).val]

\* the cells a row of integers becomes when it is appended to a worksheet
StrRow(row) == [i \in 1..Len(row) |-> Str(row[i])]

\* variant: sales minus stock
ZipSub_Swapped(xs, ys) == [i \in 1..Min(Len(xs), Len(ys)) |-> ys[i] - xs[i]]

\* [x - y for x, y in zip(stock_row_data, sales_row)]
ZipSub(xs, ys) == [i \in 1..Min(Len(xs), Len(ys)) |-> xs[i] - ys[i]]

\* worksheet.col_values(column), 1-based
col_values(rows, column) ==
    [i \in 1..Len(rows) |->
        IF column <= Len(rows[i]) THEN rows[i][column] ELSE <<>>]

\* s[-5:]
Last5(s) == SubSeq(s, Max(1, Len(s) - 4), Len(s))

RECURSIVE Sum(_)
Sum(s) == IF s = <<>> THEN 0 ELSE Head(s) + Sum(Tail(s))

(***************************************************************************)
(* calculate_stock_data                                                    *)
(***************************************************************************)
RECURSIVE Pow2Below(_, _)
Pow2Below(q, p) == IF 2 * p <= q THEN Pow2Below(q, 2 * p) ELSE p

\* variant: int() in the place of round()
RoundStock_Trunc(total, n) ==
    IF total < 0 THEN 0 - ((0 - 11 * total) \div (10 * n))
    ELSE (11 * total) \div (10 * n)

\* round((total / n) * 1.1) in double arithmetic, n > 0.  The exact value
\* is 11 * total / (10 * n).  Off a half the double product rounds as the
\* exact value does.  On a half, total / n is an odd multiple a of 5 and is
\* exact; the double nearest 1.1 exceeds 1.1 by 0.4 * 2^-52, so the product
\* is the half itself when 0.4 * a * 2^-52 is at most half an ulp of the
\* product (then round() goes to the even neighbour), and is just above the
\* half otherwise (then round() goes away from zero).
RoundStock(total, n) ==
    LET m == IF total < 0 THEN 0 - 11 * total ELSE 11 * total
        den == 10 * n
        q == m \div den
        r == m % den
        a == (IF total < 0 THEN 0 - total ELSE total) \div n
        v == IF 2 * r < den THEN q
             ELSE IF 2 * r > den THEN q + 1
             ELSE IF 4 * a <= 5 * Pow2Below(q, 1)
                  THEN (IF q % 2 = 0 THEN q ELSE q + 1)
                  ELSE q + 1
    IN  IF total < 0 THEN 0 - v ELSE v

\* the loop body for one column: int(), the mean, the margin, round()
StockOfColumn(column) ==
    IF ~AllInt(column) THEN [exc |-> "ValueError", val |-> 0]
    ELSE IF Len(column) = 0 THEN [exc |-> "ZeroDivisionError", val |-> 0]
    ELSE [exc |-> "none", val |-> RoundStock(Sum(IntRow(column)), Len(column))]

calculate_stock_data(columns) ==
    LET each == [i \in 1..Len(columns) |-> StockOfColumn(columns[i])]
    IN  IF \E i \in 1..Len(columns) : each[i].exc # "none"
        THEN LET i == CHOOSE j \in 1..Len(columns) :
                          /\ each[j].exc # "none"
                          /\ \A k \in 1..(j - 1) : each[k].exc = "none"
             IN  [exc |-> each[i].exc, val |-> <<>>]
        ELSE [exc |-> "none", val |-> [i \in 1..Len(columns) |-> each[i].val]]

(***************************************************************************)
(* What the operator may type, and what the worksheets may hold at start.  *)
(***************************************************************************)
Ones(n) == [i \in 1..n |-> <<"1">>]

Thirty == <<"t", "h", "i", "r", "t", "y">>

Tens(n) == [i \in 1..n |-> Str(10 * i)]

\* "10,20,30,40,50,60", "10,20,30,40,50" and "10,20,thirty,40,50,60"
ExampleTokens == {Tens(6), Tens(5), [Tens(6) EXCEPT ![3] = Thirty]}

\* six tokens "1" with some of them replaced: "-1,1,1,1,1, 2", "x,1,1,1,1,1"
\* and "1,1,1,1,1,"
ReplacedTokens ==
    {[Ones(6) EXCEPT ![1] = <<"-", "1">>, ![6] = <<" ", "2">>],
     [Ones(6) EXCEPT ![1] = <<"x">>], [Ones(6) EXCEPT ![6] = <<>>]}

\* the empty line, and 6 to MaxTokens tokens "1"
TokenSeqs ==
    {<<<<>>>>} \cup {Ones(n) : n \in 6..MaxTokens}
        \cup ReplacedTokens \cup ExampleTokens

InputLines == {Join(ts) : ts \in TokenSeqs}

Worksheets == {"sales", "surplus", "stock"}

Heading == [i \in 1..6 |-> <<"h", "a", "m">>]

SeedSalesRow(j) == [i \in 1..6 |-> Str(IF i % 2 = 0 THEN j ELSE 3 * j)]

SeedStockCells == <<15, 25, 25, 45, 55, 65, 75>>

SeedStockRow(w) == [i \in 1..w |-> Str(SeedStockCells[i])]

NoLocals ==
    /\ pc = "prompt"
    /\ err = "none"
    /\ prompts = 0
    /\ data_str = <<>>
    /\ validated = [ret |-> FALSE, raised |-> "none", msg |-> "none"]
    /\ data = <<>>
    /\ sales_data = <<>>
    /\ stock_row = <<>>
    /\ surplus_data = <<>>
    /\ sales_columns = <<>>
    /\ stock_data = <<>>
    /\ ops = <<>>

\* the worksheets before the first run: with or without a heading row; no
\* earlier sales row or MaxSeed of them; no stock row or one of a width in
\* widths
InitSheets(widths) ==
    \E hdr \in BOOLEAN, n \in {0, MaxSeed}, st \in {0} \cup widths :
        LET top == IF hdr THEN <<Heading>> ELSE <<>>
        IN  SHEET = [w \in Worksheets |->
                        IF w = "sales" THEN top \o [j \in 1..n |-> SeedSalesRow(j)]
                        ELSE IF w = "stock" /\ st > 0 THEN top \o <<SeedStockRow(st)>>
                        ELSE top]

Init ==
    /\ InitSheets({6})
    /\ orig = [w \in Worksheets |-> Len(SHEET[w])]
    /\ run = 1
    /\ NoLocals

\* as Init, the stock worksheet may also hold a row of 5 or of 7 cells
InitAnyStock ==
    /\ InitSheets(5..7)
    /\ orig = [w \in Worksheets |-> Len(SHEET[w])]
    /\ run = 1
    /\ NoLocals

(***************************************************************************)
(* The steps of main()                                                     *)
(***************************************************************************)
Abort(e) == pc' = "aborted" /\ err' = e

\* variant: the stock recommendation is made before the surplus
After_StockFirst(step) ==
    CASE step = "prompt" -> "convert"
      [] step = "convert" -> "update_sales"
      [] step = "update_sales" -> "get_last_5"
      [] step = "get_last_5" -> "calc_stock"
      [] step = "calc_stock" -> "update_stock"
      [] step = "update_stock" -> "calc_surplus"
      [] step = "calc_surplus" -> "update_surplus"
      [] step = "update_surplus" -> "done"

\* the statement of main() that follows a statement
After(step) ==
    CASE step = "prompt" -> "convert"
      [] step = "convert" -> "update_sales"
      [] step = "update_sales" -> "calc_surplus"
      [] step = "calc_surplus" -> "update_surplus"
      [] step = "update_surplus" -> "get_last_5"
      [] step = "get_last_5" -> "calc_stock"
      [] step = "calc_stock" -> "update_stock"
      [] step = "update_stock" -> "done"

\* variant: the loop gives up at the second refused input
get_sales_data_GiveUp ==
    /\ pc = "prompt"
    /\ \E line \in InputLines :
        LET tokens == split(line)
            v == validate_data(tokens)
        IN  /\ data_str' = line
            /\ validated' = v
            /\ prompts' = Min(prompts + 1, MaxPrompts)
            /\ IF v.raised # "none"
               THEN Abort(v.raised) /\ UNCHANGED data
               ELSE IF v.ret
               THEN pc' = After(pc) /\ data' = tokens /\ UNCHANGED err
               ELSE IF prompts >= 1
               THEN Abort("ValueError") /\ UNCHANGED data
               ELSE UNCHANGED <<pc, err, data>>
    /\ UNCHANGED <<SHEET, orig, run, sales_data, stock_row, surplus_data,
                   sales_columns, stock_data, ops>>

\* one pass of the loop of get_sales_data
get_sales_data ==
    /\ pc = "prompt"
    /\ \E line \in InputLines :
        LET tokens == split(line)
            v == validate_data(tokens)
        IN  /\ data_str' = line
            /\ validated' = v
            /\ prompts' = Min(prompts + 1, MaxPrompts)
            /\ IF v.raised # "none"
               THEN Abort(v.raised) /\ UNCHANGED data
               ELSE IF v.ret
               THEN pc' = After(pc) /\ data' = tokens /\ UNCHANGED err
               ELSE UNCHANGED <<pc, err, data>>
    /\ UNCHANGED <<SHEET, orig, run, sales_data, stock_row, surplus_data,
                   sales_columns, stock_data, ops>>

\* sales_data = [int(num) for num in data]
Convert ==
    /\ pc = "convert"
    /\ IF AllInt(data)
       THEN sales_data' = IntRow(data) /\ pc' = After(pc) /\ UNCHANGED err
       ELSE Abort("ValueError") /\ UNCHANGED sales_data
    /\ UNCHANGED <<SHEET, orig, run, prompts, data_str, validated, data,
                   stock_row, surplus_data, sales_columns, stock_data, ops>>

\* variant: a failed append takes back the sales row of the run
update_worksheet_Rollback(row, worksheet, next) ==
    \E ok \in BOOLEAN :
        /\ ops' = Append(ops, <<"append", worksheet>>)
        /\ IF ok
           THEN /\ SHEET' = [SHEET EXCEPT ![worksheet] = Append(@, StrRow(row))]
                /\ pc' = next
                /\ UNCHANGED err
           ELSE /\ Abort("StoreAccessError")
                /\ SHEET' = IF worksheet = "sales" THEN SHEET
                            ELSE [SHEET EXCEPT !["sales"] = SubSeq(@, 1, Len(@) - 1)]

\* update_worksheet(row, worksheet); the store call may fail
update_worksheet(row, worksheet, next) ==
    \E ok \in BOOLEAN :
        /\ ops' = Append(ops, <<"append", worksheet>>)
        /\ IF ok
           THEN /\ SHEET' = [SHEET EXCEPT ![worksheet] = Append(@, StrRow(row))]
                /\ pc' = next
                /\ UNCHANGED err
           ELSE /\ Abort("StoreAccessError")
                /\ UNCHANGED SHEET

UpdateSales ==
    /\ pc = "update_sales"
    /\ update_worksheet(sales_data, "sales", After(pc))
    /\ UNCHANGED <<orig, run, prompts, data_str, validated, data, sales_data,
                   stock_row, surplus_data, sales_columns, stock_data>>

calculate_surplus_data ==
    /\ pc = "calc_surplus"
    /\ ops' = Append(ops, <<"read", "stock">>)
    /\ \E ok \in BOOLEAN :
        LET stock == SHEET["stock"]
        IN  IF ~ok
            THEN Abort("StoreAccessError") /\ UNCHANGED <<stock_row, surplus_data>>
            ELSE IF stock = <<>>
            THEN Abort("IndexError") /\ UNCHANGED <<stock_row, surplus_data>>
            ELSE /\ stock_row' = stock[Len(stock)]
                 /\ IF AllInt(stock_row')
                    THEN /\ surplus_data' = ZipSub(IntRow(stock_row'), sales_data)
                         /\ pc' = After(pc)
                         /\ UNCHANGED err
                    ELSE Abort("ValueError") /\ UNCHANGED surplus_data
    /\ UNCHANGED <<SHEET, orig, run, prompts, data_str, validated, data,
                   sales_data, sales_columns, stock_data>>

UpdateSurplus ==
    /\ pc = "update_surplus"
    /\ update_worksheet(surplus_data, "surplus", After(pc))
    /\ UNCHANGED <<orig, run, prompts, data_str, validated, data, sales_data,
                   stock_row, surplus_data, sales_columns, stock_data>>

get_last_5_entries_sales ==
    /\ pc = "get_last_5"
    /\ ops' = Append(ops, <<"read", "sales">>)
    /\ \E ok \in BOOLEAN :
        IF ok
        THEN /\ sales_columns' =
                    [column \in 1..6 |-> Last5(col_values(SHEET["sales"], column))]
             /\ pc' = After(pc)
             /\ UNCHANGED err
        ELSE Abort("StoreAccessError") /\ UNCHANGED sales_columns
    /\ UNCHANGED <<SHEET, orig, run, prompts, data_str, validated, data,
                   sales_data, stock_row, surplus_data, stock_data>>

CalcStock ==
    /\ pc = "calc_stock"
    /\ LET r == calculate_stock_data(sales_columns)
       IN  IF r.exc = "none"
           THEN stock_data' = r.val /\ pc' = After(pc) /\ UNCHANGED err
           ELSE Abort(r.exc) /\ UNCHANGED stock_data
    /\ UNCHANGED <<SHEET, orig, run, prompts, data_str, validated, data,
                   sales_data, stock_row, surplus_data, sales_columns, ops>>

UpdateStock ==
    /\ pc = "update_stock"
    /\ update_worksheet(stock_data, "stock", After(pc))
    /\ UNCHANGED <<orig, run, prompts, data_str, validated, data, sales_data,
                   stock_row, surplus_data, sales_columns, stock_data>>

\* the program is started again; the worksheets are what the last run left
Restart ==
    /\ pc \in {"done", "aborted"}
    /\ run < MaxRuns
    /\ run' = run + 1
    /\ pc' = "prompt"
    /\ err' = "none"
    /\ prompts' = 0
    /\ data_str' = <<>>
    /\ validated' = [ret |-> FALSE, raised |-> "none", msg |-> "none"]
    /\ data' = <<>>
    /\ sales_data' = <<>>
    /\ stock_row' = <<>>
    /\ surplus_data' = <<>>
    /\ sales_columns' = <<>>
    /\ stock_data' = <<>>
    /\ ops' = <<>>
    /\ UNCHANGED <<SHEET, orig>>

Next ==
    \/ get_sales_data
    \/ Convert
    \/ UpdateSales
    \/ calculate_surplus_data
    \/ UpdateSurplus
    \/ get_last_5_entries_sales
    \/ CalcStock
    \/ UpdateStock
    \/ Restart

Spec == Init /\ [][Next]_vars

SpecAnyStock == InitAnyStock /\ [][Next]_vars

(***************************************************************************)
(* calculate_stock_data on its own: a history of 6 columns of 5 integers.  *)
(***************************************************************************)
StockVals == {0 - 1, 0, 2, 5, 15, 55}

\* the example column 10,12,11,13,9, and the columns a,b,b,b,b
ColumnPool ==
    {StrRow(<<10, 12, 11, 13, 9>>)}
        \cup {[j \in 1..5 |-> Str(IF j = 1 THEN a ELSE b)] : a, b \in StockVals}

\* one column from the pool, the other five all v,v,v,v,v
Histories ==
    {[column \in 1..6 |-> IF column = i THEN a ELSE [j \in 1..5 |-> Str(v)]] :
        i \in 1..6, a \in ColumnPool, v \in StockVals}

InitStock ==
    /\ SHEET = [w \in Worksheets |-> <<>>]
    /\ orig = [w \in Worksheets |-> 0]
    /\ run = 1
    /\ pc = "calc_stock"
    /\ err = "none"
    /\ prompts = 0
    /\ data_str = <<>>
    /\ validated = [ret |-> FALSE, raised |-> "none", msg |-> "none"]
    /\ data = <<>>
    /\ sales_data = <<>>
    /\ stock_row = <<>>
    /\ surplus_data = <<>>
    /\ sales_columns \in Histories
    /\ stock_data = <<>>
    /\ ops = <<>>

SpecStock == InitStock /\ [][CalcStock]_vars

(***************************************************************************)
(* Properties                                                              *)
(***************************************************************************)
\* 6 tokens, each of them an integer literal
WellFormedTokens(tokens) ==
    Len(tokens) = 6 /\ \A i \in 1..Len(tokens) : PyInt(tokens[i]).ok

RunOrder ==
    <<<<"append", "sales">>, <<"read", "stock">>, <<"append", "surplus">>,
      <<"read", "sales">>, <<"append", "stock">>>>

IsPrefix(s, t) == Len(s) <= Len(t) /\ s = SubSeq(t, 1, Len(s))

\* the k-th store call of the run was made and did not fail
Succeeded(k) == Len(ops) > k \/ (Len(ops) = k /\ pc # "aborted")

LastRow(w) == SHEET[w][Len(SHEET[w])]

\* the rows appended to worksheet w since the first run started
AppendedRows(w) == SubSeq(SHEET[w], orig[w] + 1, Len(SHEET[w]))

\* the last row of stock as it was before the run appended its own
PriorStockRow ==
    LET stock == SHEET["stock"]
    IN  IF Succeeded(5) THEN stock[Len(stock) - 1] ELSE stock[Len(stock)]

\* C1: validate_data returns True exactly when there are 6 tokens and int()
\* takes every one of them, returns False otherwise, lets no exception out,
\* and gives the same result when the same line is entered again.
C1_Validator ==
    /\ [](prompts > 0 =>
            /\ validated.raised = "none"
            /\ validated.ret = WellFormedTokens(split(data_str)))
    /\ [][(prompts > 0 /\ prompts' > 0 /\ data_str' = data_str)
            => validated' = validated]_vars

\* a line of 6 tokens was refused for a token that is no integer
C1_Witness ==
    /\ prompts > 0
    /\ ~validated.ret
    /\ validated.msg = "invalid literal"
    /\ Len(split(data_str)) = 6

\* C2: the store calls of a run are, in this order and once each: append to
\* sales, read stock, append to surplus, read the sales columns, append to
\* stock; none is made before the validator has accepted the input.
C2_StoreOrder ==
    /\ IsPrefix(ops, RunOrder)
    /\ pc = "done" => ops = RunOrder
    /\ ops # <<>> => validated.ret /\ WellFormedTokens(split(data_str))

C2_Witness == pc = "done" /\ Len(ops) = 5 /\ Len(SHEET["stock"]) = orig["stock"] + 1

\* C3: the surplus row a run appends is, cell by cell over the 6 cells, the
\* last stock row as it was before the run's own stock row, minus the sales
\* row the run appended.
C3_Surplus ==
    Succeeded(3) =>
        LET surplus == LastRow("surplus")
            sales == LastRow("sales")
            stock == PriorStockRow
        IN  /\ Len(surplus) = 6
            /\ \A i \in 1..6 :
                PyInt(surplus[i]).val = PyInt(stock[i]).val - PyInt(sales[i]).val

\* "10,20,30,40,50,60" against the stock row 15,25,25,45,55,65
C3_Witness ==
    /\ pc = "done"
    /\ sales_data = <<10, 20, 30, 40, 50, 60>>
    /\ IntRow(PriorStockRow) = <<15, 25, 25, 45, 55, 65>>
    /\ LastRow("surplus") = StrRow(<<5, 5, 0 - 5, 5, 5, 5>>)

\* C4: a refused input leads to a new prompt, is no failure and leaves the
\* worksheets alone, however many inputs were refused before; the loop is
\* left with the tokens of the first accepted input and not otherwise.
C4_InputLoop ==
    /\ [][pc = "prompt" =>
            IF WellFormedTokens(split(data_str'))
            THEN pc' = "convert" /\ data' = split(data_str') /\ err' = "none"
            ELSE /\ pc' = "prompt"
                 /\ err' = "none"
                 /\ UNCHANGED <<SHEET, ops, data>>]_vars
    /\ [](pc \notin {"prompt", "aborted"} =>
            validated.ret /\ data = split(data_str))

\* prompting again after MaxPrompts or more inputs, the last of them refused
C4_Witness ==
    /\ pc = "prompt"
    /\ prompts = MaxPrompts
    /\ ~validated.ret
    /\ SHEET["sales"] = <<>>

\* C5: for 6 columns of 5 integers, calculate_stock_data gives 6 integers,
\* the i-th the integer nearest to 11 * sum(column i) / 50, the same for
\* equal columns wherever they stand.
C5_Stock ==
    /\ pc # "aborted"
    /\ pc = "update_stock" =>
        /\ Len(stock_data) = 6
        /\ \A i \in 1..6 :
            LET d == 50 * stock_data[i] - 11 * Sum(IntRow(sales_columns[i]))
            IN  0 - 25 <= d /\ d <= 25
        /\ \A i, k \in 1..6 :
            sales_columns[i] = sales_columns[k] => stock_data[i] = stock_data[k]

\* the column 10,12,11,13,9 gives 12, beside columns 5,5,5,5,5 that give 6
C5_Witness ==
    /\ pc = "update_stock"
    /\ sales_columns[1] = StrRow(<<10, 12, 11, 13, 9>>)
    /\ stock_data = <<12, 6, 6, 6, 6, 6>>

\* C6 as stated: every row appended to sales is 6 non-negative integers.
C6_NonNegative ==
    \A r \in 1..Len(AppendedRows("sales")) :
        LET row == AppendedRows("sales")[r]
        IN  /\ Len(row) = 6
            /\ \A i \in 1..Len(row) : PyInt(row[i]).ok /\ PyInt(row[i]).val >= 0

\* C6 amended: every row appended to sales is 6 integers, of either sign,
\* the i-th being int() of the i-th token of the accepted input.
C6_Integers ==
    /\ \A r \in 1..Len(AppendedRows("sales")) :
        LET row == AppendedRows("sales")[r]
        IN  Len(row) = 6 /\ AllInt(row)
    /\ Succeeded(1) =>
        /\ Len(split(data_str)) = 6
        /\ IntRow(LastRow("sales")) = IntRow(split(data_str))

\* the run appended -1,1,1,1,1,2 for the input "-1,1,1,1,1, 2"
C6_Witness ==
    /\ Succeeded(1)
    /\ PyInt(split(data_str)[1]).val < 0
    /\ split(data_str)[6] = <<" ", "2">>
    /\ LastRow("sales") = StrRow(<<0 - 1, 1, 1, 1, 1, 2>>)

\* C7 as stated: every appended row has 6 cells whatever the stock worksheet
\* held, a run whose stock row and sales row differ in length being aborted
\* before it appends a surplus row.
C7_SixCells ==
    /\ \A w \in Worksheets : \A r \in 1..Len(AppendedRows(w)) :
        Len(AppendedRows(w)[r]) = 6
    /\ pc = "update_surplus" => Len(stock_row) = Len(sales_data)

\* C8: a failed store call ends the run there: the worksheets are as the
\* earlier steps left them, the failed call is the last of the run, and
\* nothing happens until the program is started again.
C8_StoreFailure ==
    /\ []((pc = "aborted" /\ err = "StoreAccessError") =>
            /\ IsPrefix(ops, RunOrder)
            /\ Len(ops) >= 2 =>
                /\ Len(SHEET["sales"]) > orig["sales"]
                /\ LastRow("sales") = StrRow(sales_data)
            /\ Len(ops) >= 4 =>
                /\ Len(SHEET["surplus"]) > orig["surplus"]
                /\ LastRow("surplus") = StrRow(surplus_data))
    /\ [][/\ (err' = "StoreAccessError" /\ err # "StoreAccessError")
                => (pc' = "aborted" /\ SHEET' = SHEET)
          /\ (pc = "aborted" /\ run' = run)
                => UNCHANGED <<SHEET, ops, pc, err>>]_vars

\* the append to surplus failed, the sales row of the run is still there
C8_Witness ==
    /\ pc = "aborted"
    /\ err = "StoreAccessError"
    /\ Len(ops) = 3
    /\ Len(SHEET["sales"]) > orig["sales"]
    /\ LastRow("sales") = StrRow(sales_data)

\* C9 as stated: a stock row is computed and appended only from windows of
\* exactly 5 entries; with fewer the run fails before.
C9_FullWindow ==
    pc \in {"update_stock", "done"} =>
        \A column \in 1..6 : Len(sales_columns[column]) = 5

\* C10 as stated: in a completed run the window has 5 entries, the run's own
\* sales row the most recent and the 4 rows before it the others, while the
\* surplus was taken against the stock row of the run before.
C10_WindowHoldsOwnRow ==
    pc = "done" =>
        LET sales == SHEET["sales"]
            n == Len(sales)
        IN  /\ \A column \in 1..6 :
                /\ Len(sales_columns[column]) = 5
                /\ n >= 5
                /\ PyInt(sales_columns[column][5]).val = sales_data[column]
                /\ \A j \in 1..4 :
                    sales_columns[column][j] = sales[n - 5 + j][column]
            /\ surplus_data = ZipSub(IntRow(PriorStockRow), sales_data)

====
